---------------------------- MODULE Spec2Model ----------------------------
(***************************************************************************)
(* One run of pages/Live.py: the script is executed top to bottom on every *)
(* user interaction.  The two CSV files, the sidebar widgets and the       *)
(* "Load Data" button are the inputs of a run; the module-level variables  *)
(* of the script and the elements it renders are the state.                *)
(*                                                                         *)
(* Numbers are exact: a price is an integer, a mean or a ratio is a        *)
(* reduced fraction <<numerator, denominator>>.  A value that may be       *)
(* missing (an empty CSV cell, a float NaN, a Python name not yet bound)   *)
(* is a sequence of length 0 or 1.                                         *)
(***************************************************************************)
EXTENDS Integers, Sequences, FiniteSets

(***************************************************************************)
(* Bounds of the model.                                                    *)
(***************************************************************************)
MaxRows == 3

MaxPrice == 3

(***************************************************************************)
(* Missing values.                                                         *)
(***************************************************************************)
NaN == <<>>

Unbound == <<>>

None == "<None>"

notna(x) == x # NaN

isna(x) == x = NaN

IsBound(x) == Len(x) = 1

(***************************************************************************)
(* Exact arithmetic.                                                       *)
(***************************************************************************)
Abs(x) == IF x < 0 THEN -x ELSE x

RECURSIVE GCD(_, _)
GCD(a, b) == IF b = 0 THEN a ELSE GCD(b, a % b)

Frac(n, d) ==
    LET g == GCD(Abs(n), Abs(d))
        s == IF d < 0 THEN -1 ELSE 1
    IN  <<(s * n) \div g, (s * d) \div g>>

FracSub(a, b) == Frac(a[1] * b[2] - b[1] * a[2], a[2] * b[2])

FracLE(a, b) == a[1] * b[2] <= b[1] * a[2]

FromInt(n) == <<n, 1>>

RECURSIVE SumSeq(_)
SumSeq(s) == IF Len(s) = 0 THEN 0 ELSE s[1] + SumSeq(Tail(s))

(***************************************************************************)
(* Dates: <<year, month, day>>, ordered as calendar dates.                 *)
(***************************************************************************)
DateLE(a, b) ==
    \/ a[1] < b[1]
    \/ a[1] = b[1] /\ a[2] < b[2]
    \/ a[1] = b[1] /\ a[2] = b[2] /\ a[3] <= b[3]

DateAt(i) == IF i = 0 THEN <<2019, 12, 31>> ELSE <<2020, 1, i>>

DefaultStart == <<2020, 1, 1>>

Digit(n) ==
    CASE n = 0 -> "0" [] n = 1 -> "1" [] n = 2 -> "2" [] n = 3 -> "3"
      [] n = 4 -> "4" [] n = 5 -> "5" [] n = 6 -> "6" [] n = 7 -> "7"
      [] n = 8 -> "8" [] n = 9 -> "9"

Pad2(n) == <<Digit((n \div 10) % 10), Digit(n % 10)>>

Pad4(n) == <<Digit((n \div 1000) % 10), Digit((n \div 100) % 10)>> \o Pad2(n % 100)

strftime(d) == Pad4(d[1]) \o <<"-">> \o Pad2(d[2]) \o <<"-">> \o Pad2(d[3])

(***************************************************************************)
(* Series and table operations of pandas / scikit-learn used by the page.  *)
(***************************************************************************)
Column(t, c) == [i \in 1..Len(t) |-> t[i][c]]

Values(s) == [i \in 1..Len(s) |-> s[i][1]]

empty(t) == Len(t) = 0

SeriesMin(s) == CHOOSE m \in {s[i] : i \in 1..Len(s)} : \A j \in 1..Len(s) : m <= s[j]

\* A faulty max: the first close, as if the rows were sorted by price.
SeriesMaxFirst(s) == s[1]

SeriesMax(s) == CHOOSE m \in {s[i] : i \in 1..Len(s)} : \A j \in 1..Len(s) : s[j] <= m

SeriesMean(s) == Frac(SumSeq(s), Len(s))

diff(s) ==
    [i \in 1..Len(s) |->
        IF i = 1 \/ isna(s[i]) \/ isna(s[i - 1]) THEN NaN
        ELSE <<s[i][1] - s[i - 1][1]>>]

\* A faulty indicator: a zero change counts as up.
ge0(s) == [i \in 1..Len(s) |-> IF isna(s[i]) THEN <<FALSE>> ELSE <<s[i][1] >= 0>>]

gt0(s) == [i \in 1..Len(s) |-> IF isna(s[i]) THEN <<FALSE>> ELSE <<s[i][1] > 0>>]

dropna(s) == SelectSeq(s, notna)

accuracy_score(y_true, y_pred) ==
    Frac(Cardinality({i \in 1..Len(y_true) : y_true[i] = y_pred[i]}), Len(y_true))

mean_absolute_error(y_true, y_pred) ==
    Frac(SumSeq([i \in 1..Len(y_true) |-> Abs(y_true[i] - y_pred[i])]), Len(y_true))

Sign(x) == IF x > 0 THEN 1 ELSE IF x < 0 THEN -1 ELSE 0

Cov(x, y) ==
    Len(x) * SumSeq([i \in 1..Len(x) |-> x[i] * y[i]]) - SumSeq(x) * SumSeq(y)

\* A faulty correlation: 0 instead of NaN when a variance is zero.
corrZero(x, y) ==
    IF Cov(x, x) * Cov(y, y) = 0 THEN <<[sign |-> 0, square |-> Frac(0, 1)]>>
    ELSE <<[sign |-> Sign(Cov(x, y)),
            square |-> Frac(Cov(x, y) * Cov(x, y), Cov(x, x) * Cov(y, y))]>>

corr(x, y) ==
    IF Cov(x, x) * Cov(y, y) = 0 THEN NaN
    ELSE <<[sign |-> Sign(Cov(x, y)),
            square |-> Frac(Cov(x, y) * Cov(x, y), Cov(x, x) * Cov(y, y))]>>

unique(s) == {s[i] : i \in 1..Len(s)}

(***************************************************************************)
(* The inputs of a run and the script's variables.                         *)
(***************************************************************************)
VARIABLES
    merged_exists, merged_csv, preds_exists, preds_csv,
    load_pressed, sidebar_ticker, start_date, end_date,
    pc, out,
    selected_ticker, df, df_filtered,
    low_price, high_price, mean_price, delta_low, delta_high,
    df_preds, df_preds_filtered, historical_data, future_prediction,
    next_date, next_pred, mae, direction_accuracy, correlation

inputs ==
    <<merged_exists, merged_csv, preds_exists, preds_csv,
      load_pressed, sidebar_ticker, start_date, end_date>>

priceVars ==
    <<df, df_filtered, low_price, high_price, mean_price, delta_low, delta_high>>

predVars ==
    <<df_preds, df_preds_filtered, historical_data, future_prediction,
      next_date, next_pred, mae, direction_accuracy, correlation>>

vars == <<inputs, pc, out, selected_ticker, priceVars, predVars>>

tickers == {"AAPL", "MSFT", "AMZN", "TSLA", "META"}

(***************************************************************************)
(* The input files and widget values a run is checked on.                  *)
(***************************************************************************)
FileTickers == {"AAPL", "MSFT"}

RangeDates == {DateAt(i) : i \in 0..MaxRows}

Cells == {NaN} \cup {<<v>> : v \in 1..MaxPrice}

Prices == {<<v>> : v \in 1..MaxPrice}

\* ml_predictions_2.csv holding one ticker, one row per day: closes c, predictions p.
PredTable(n, c, p) ==
    [i \in 1..n |-> [Date |-> DateAt(i), Ticker |-> "AAPL",
                     Close |-> c[i], Predicted_Close |-> p[i]]]

\* ml_predictions_2.csv holding two tickers, the newest AAPL row unrealized.
PredSamples ==
    {<<>>,
     <<[Date |-> DateAt(1), Ticker |-> "MSFT", Close |-> NaN, Predicted_Close |-> <<2>>]>>,
     <<[Date |-> DateAt(0), Ticker |-> "AAPL", Close |-> <<3>>, Predicted_Close |-> <<1>>],
       [Date |-> DateAt(1), Ticker |-> "AAPL", Close |-> <<1>>, Predicted_Close |-> <<1>>],
       [Date |-> DateAt(1), Ticker |-> "MSFT", Close |-> <<2>>, Predicted_Close |-> <<3>>],
       [Date |-> DateAt(2), Ticker |-> "AAPL", Close |-> <<2>>, Predicted_Close |-> <<2>>],
       [Date |-> DateAt(3), Ticker |-> "AAPL", Close |-> NaN, Predicted_Close |-> <<3>>]>>}

\* merged_data.csv: one row per day, tickers t, closes in steps of 10.
MergedTable(n, t, c) ==
    [i \in 1..n |-> [Date |-> DateAt(i), Ticker |-> t[i], Close |-> 10 * c[i]]]

MergedSamples ==
    {<<[Date |-> DateAt(1), Ticker |-> "AAPL", Close |-> 10],
       [Date |-> DateAt(1), Ticker |-> "MSFT", Close |-> 30],
       [Date |-> DateAt(2), Ticker |-> "AAPL", Close |-> 20]>>}

SidebarChoices == {"AAPL", "MSFT", "META"}

InitScript ==
    /\ pc = "button"
    /\ out = <<>>
    /\ selected_ticker = sidebar_ticker
    /\ df = Unbound /\ df_filtered = Unbound
    /\ low_price = Unbound /\ high_price = Unbound /\ mean_price = Unbound
    /\ delta_low = Unbound /\ delta_high = Unbound
    /\ df_preds = Unbound /\ df_preds_filtered = Unbound
    /\ historical_data = Unbound /\ future_prediction = Unbound
    /\ next_date = Unbound /\ next_pred = Unbound
    /\ mae = Unbound /\ direction_accuracy = Unbound /\ correlation = Unbound

\* The button is not pressed; the prediction file varies.
InitPredictions ==
    /\ load_pressed = FALSE
    /\ merged_exists = TRUE /\ merged_csv = <<>>
    /\ sidebar_ticker = "AAPL"
    /\ start_date = DefaultStart /\ end_date = DateAt(MaxRows)
    /\ preds_exists = TRUE
    /\ \E n \in 0..MaxRows : \E c \in [1..n -> Cells], p \in [1..n -> Prices] :
          preds_csv = PredTable(n, c, p)

\* The button is pressed; the price file, the ticker and the range vary.
InitPrices ==
    /\ load_pressed = TRUE
    /\ merged_exists = TRUE
    /\ \E n \in 0..MaxRows : \E t \in [1..n -> FileTickers], c \in [1..n -> 1..MaxPrice] :
          merged_csv = MergedTable(n, t, c)
    /\ sidebar_ticker \in SidebarChoices
    /\ start_date \in {DateAt(i) : i \in 0..2}
    /\ end_date \in {DateAt(i) : i \in 1..MaxRows}
    /\ preds_exists = FALSE /\ preds_csv = <<>>

\* The button is pressed; either file may be missing; the sidebar varies.
InitFiles ==
    /\ load_pressed = TRUE
    /\ merged_exists \in BOOLEAN
    /\ merged_csv \in (IF merged_exists THEN MergedSamples ELSE {<<>>})
    /\ sidebar_ticker \in SidebarChoices
    /\ start_date \in RangeDates /\ end_date \in RangeDates
    /\ preds_exists \in BOOLEAN
    /\ preds_csv \in (IF preds_exists THEN PredSamples ELSE {<<>>})

Init == (InitPredictions \/ InitFiles) /\ InitScript

InitPriceRuns == (InitPrices \/ InitFiles) /\ InitScript

(***************************************************************************)
(* The steps of the script.                                                *)
(***************************************************************************)
Render(kind, what) == out' = Append(out, [kind |-> kind, what |-> what])

\* if st.sidebar.button("Load Data"):
LoadDataButton ==
    /\ pc = "button"
    /\ pc' = IF load_pressed THEN "load_merged" ELSE "load_preds"
    /\ UNCHANGED <<inputs, out, selected_ticker, priceVars, predVars>>

\* if merged_data_path.exists(): df = pd.read_csv(...) else: st.error(...)
LoadMerged ==
    /\ pc = "load_merged"
    /\ IF merged_exists
       THEN df' = <<merged_csv>> /\ UNCHANGED out
       ELSE Render("error", "File not found: merged_data.csv") /\ UNCHANGED df
    /\ pc' = "filter"
    /\ UNCHANGED <<inputs, selected_ticker, df_filtered, low_price, high_price,
                   mean_price, delta_low, delta_high, predVars>>

FilterRange(t, tk, lo, hi) ==
    SelectSeq(t, LAMBDA r : r.Ticker = tk /\ DateLE(lo, r.Date) /\ DateLE(r.Date, hi))

\* df_filtered = df[...]; the name df is unbound when the file was missing.
FilterMerged ==
    /\ pc = "filter"
    /\ IF IsBound(df)
       THEN /\ df_filtered' = <<FilterRange(df[1], selected_ticker, start_date, end_date)>>
            /\ pc' = "price_metrics"
            /\ UNCHANGED out
       ELSE /\ Render("exception", "NameError: name 'df' is not defined")
            /\ pc' = "crashed"
            /\ UNCHANGED df_filtered
    /\ UNCHANGED <<inputs, selected_ticker, df, low_price, high_price,
                   mean_price, delta_low, delta_high, predVars>>

\* A faulty variant: the chart is drawn outside the else branch.
ShowPriceMetricsDedent ==
    /\ pc = "price_metrics"
    /\ IF empty(df_filtered[1])
       THEN /\ out' = out \o <<[kind |-> "warning", what |-> "No data available"],
                               [kind |-> "chart", what |-> "Closing Prices Over Time"]>>
            /\ UNCHANGED <<low_price, high_price, mean_price, delta_low, delta_high>>
       ELSE LET close == Column(df_filtered[1], "Close")
            IN  /\ low_price' = <<SeriesMin(close)>>
                /\ high_price' = <<SeriesMax(close)>>
                /\ mean_price' = <<SeriesMean(close)>>
                /\ delta_low' = <<FracSub(FromInt(SeriesMin(close)), SeriesMean(close))>>
                /\ delta_high' = <<FracSub(FromInt(SeriesMax(close)), SeriesMean(close))>>
                /\ out' = out \o <<[kind |-> "metric", what |-> "Low"],
                                   [kind |-> "metric", what |-> "Mean"],
                                   [kind |-> "metric", what |-> "High"],
                                   [kind |-> "chart", what |-> "Closing Prices Over Time"]>>
    /\ pc' = "load_preds"
    /\ UNCHANGED <<inputs, selected_ticker, df, df_filtered, predVars>>

\* if df_filtered.empty: st.warning(...) else: the three metrics and the chart
ShowPriceMetrics ==
    /\ pc = "price_metrics"
    /\ IF empty(df_filtered[1])
       THEN /\ Render("warning", "No data available")
            /\ UNCHANGED <<low_price, high_price, mean_price, delta_low, delta_high>>
       ELSE LET close == Column(df_filtered[1], "Close")
            IN  /\ low_price' = <<SeriesMin(close)>>
                /\ high_price' = <<SeriesMax(close)>>
                /\ mean_price' = <<SeriesMean(close)>>
                /\ delta_low' = <<FracSub(FromInt(SeriesMin(close)), SeriesMean(close))>>
                /\ delta_high' = <<FracSub(FromInt(SeriesMax(close)), SeriesMean(close))>>
                /\ out' = out \o <<[kind |-> "metric", what |-> "Low"],
                                   [kind |-> "metric", what |-> "Mean"],
                                   [kind |-> "metric", what |-> "High"],
                                   [kind |-> "chart", what |-> "Closing Prices Over Time"]>>
    /\ pc' = "load_preds"
    /\ UNCHANGED <<inputs, selected_ticker, df, df_filtered, predVars>>

\* if ml_predictions_path.exists(): df_preds = pd.read_csv(...) else: st.error; st.stop()
LoadPredictions ==
    /\ pc = "load_preds"
    /\ IF preds_exists
       THEN df_preds' = <<preds_csv>> /\ pc' = "select" /\ UNCHANGED out
       ELSE /\ Render("error", "File not found: ml_predictions_2.csv")
            /\ pc' = "stopped"
            /\ UNCHANGED df_preds
    /\ UNCHANGED <<inputs, selected_ticker, priceVars, df_preds_filtered, historical_data,
                   future_prediction, next_date, next_pred, mae, direction_accuracy,
                   correlation>>

\* st.selectbox: one of the options, None when there is none.
SelectboxChoices(options) == IF options = {} THEN {None} ELSE options

FilterTicker(t, tk) == SelectSeq(t, LAMBDA r : r.Ticker = tk)

\* A faulty split: the missing close is filled with 0 and the row kept.
HistoricalFillna(t) ==
    [i \in 1..Len(t) |-> IF isna(t[i].Close) THEN [t[i] EXCEPT !.Close = <<0>>] ELSE t[i]]

HistoricalOf(t) == SelectSeq(t, LAMBDA r : notna(r.Close))

FutureOf(t) == SelectSeq(t, LAMBDA r : isna(r.Close))

\* selected_ticker = st.selectbox(...); the ticker filter; the historical/future split;
\* px.line(historical_data, ...), fig.add_scatter(...) for the future row, st.plotly_chart
SelectAndPartition ==
    /\ pc = "select"
    /\ \E choice \in SelectboxChoices(unique(Column(df_preds[1], "Ticker"))) :
        /\ selected_ticker' = choice
        /\ df_preds_filtered' = <<FilterTicker(df_preds[1], choice)>>
        /\ historical_data' = <<HistoricalOf(FilterTicker(df_preds[1], choice))>>
        /\ future_prediction' = <<FutureOf(FilterTicker(df_preds[1], choice))>>
        /\ out' = out \o
            (IF empty(FutureOf(FilterTicker(df_preds[1], choice)))
             THEN <<[kind |-> "chart", what |-> "Actual vs Predicted"]>>
             ELSE <<[kind |-> "chart", what |-> "Actual vs Predicted + Future Prediction"]>>)
    /\ pc' = "next"
    /\ UNCHANGED <<inputs, priceVars, df_preds, next_date, next_pred, mae,
                   direction_accuracy, correlation>>

\* A faulty variant: the next prediction is shown only with historical rows.
ShowNextPredictionWithHistory ==
    /\ pc = "next"
    /\ IF ~empty(future_prediction[1]) /\ ~empty(historical_data[1])
       THEN /\ next_date' = <<strftime(future_prediction[1][1].Date)>>
            /\ next_pred' = future_prediction[1][1].Predicted_Close
            /\ Render("success", "Next day prediction")
       ELSE UNCHANGED <<next_date, next_pred, out>>
    /\ pc' = "metrics"
    /\ UNCHANGED <<inputs, selected_ticker, priceVars, df_preds, df_preds_filtered,
                   historical_data, future_prediction, mae, direction_accuracy, correlation>>

\* if not future_prediction.empty: next_date, next_pred = first future row; st.success
ShowNextPrediction ==
    /\ pc = "next"
    /\ IF ~empty(future_prediction[1])
       THEN /\ next_date' = <<strftime(future_prediction[1][1].Date)>>
            /\ next_pred' = future_prediction[1][1].Predicted_Close
            /\ Render("success", "Next day prediction")
       ELSE UNCHANGED <<next_date, next_pred, out>>
    /\ pc' = "metrics"
    /\ UNCHANGED <<inputs, selected_ticker, priceVars, df_preds, df_preds_filtered,
                   historical_data, future_prediction, mae, direction_accuracy, correlation>>

UpDays(s) == dropna(gt0(diff(s)))

MaeOf(h) == mean_absolute_error(Values(Column(h, "Close")), Values(Column(h, "Predicted_Close")))

DirectionAccuracyOf(h) ==
    accuracy_score(UpDays(Column(h, "Close")), UpDays(Column(h, "Predicted_Close")))

CorrelationOf(h) == corr(Values(Column(h, "Close")), Values(Column(h, "Predicted_Close")))

\* if not historical_data.empty: mae, direction_accuracy, correlation and the three
\* metric widgets; else: st.warning.  Then st.caption, the last statement of the script.
ShowPerformanceMetrics ==
    /\ pc = "metrics"
    /\ IF ~empty(historical_data[1])
       THEN /\ mae' = <<MaeOf(historical_data[1])>>
            /\ direction_accuracy' = <<DirectionAccuracyOf(historical_data[1])>>
            /\ correlation' = <<CorrelationOf(historical_data[1])>>
            /\ out' = out \o <<[kind |-> "metric", what |-> "Mean Absolute Error"],
                               [kind |-> "metric", what |-> "Direction Accuracy"],
                               [kind |-> "metric", what |-> "Price Correlation"],
                               [kind |-> "caption", what |-> "selected date range and ticker only"]>>
       ELSE /\ out' = out \o <<[kind |-> "warning", what |-> "No historical data available"],
                               [kind |-> "caption", what |-> "selected date range and ticker only"]>>
            /\ UNCHANGED <<mae, direction_accuracy, correlation>>
    /\ pc' = "done"
    /\ UNCHANGED <<inputs, selected_ticker, priceVars, df_preds, df_preds_filtered,
                   historical_data, future_prediction, next_date, next_pred>>

Next ==
    \/ LoadDataButton
    \/ LoadMerged
    \/ FilterMerged
    \/ ShowPriceMetrics
    \/ LoadPredictions
    \/ SelectAndPartition
    \/ ShowNextPrediction
    \/ ShowPerformanceMetrics

Spec == Init /\ [][Next]_vars

SpecPrices == InitPriceRuns /\ [][Next]_vars

(***************************************************************************)
(* Helpers of the properties.                                              *)
(***************************************************************************)
Rendered(kind, what) == \E i \in 1..Len(out) : out[i] = [kind |-> kind, what |-> what]

MetricsShown == IsBound(mae) /\ IsBound(direction_accuracy) /\ IsBound(correlation)

AfterMetrics == pc = "done"

Actual == Values(Column(historical_data[1], "Close"))

Predicted == Values(Column(historical_data[1], "Predicted_Close"))

\* Positions 2..n of the historical rows where actual and predicted move alike.
AgreeingDays ==
    {i \in 2..Len(Actual) :
        (Actual[i] - Actual[i - 1] > 0) = (Predicted[i] - Predicted[i - 1] > 0)}

Permutations(n) == {p \in [1..n -> 1..n] : \A i, j \in 1..n : p[i] = p[j] => i = j}

Permuted(t, p) == [i \in 1..Len(t) |-> t[p[i]]]

DistinctDates(t) == \A i, j \in 1..Len(t) : t[i].Date = t[j].Date => i = j

DigitValue(c) == CHOOSE n \in 0..9 : Digit(n) = c

ParseDate(s) ==
    <<1000 * DigitValue(s[1]) + 100 * DigitValue(s[2]) + 10 * DigitValue(s[3])
        + DigitValue(s[4]),
      10 * DigitValue(s[6]) + DigitValue(s[7]),
      10 * DigitValue(s[9]) + DigitValue(s[10])>>

InRange(t) == SelectSeq(t, LAMBDA r : DateLE(start_date, r.Date) /\ DateLE(r.Date, end_date))

(***************************************************************************)
(* C1: for n >= 2 historical rows direction_accuracy is the fraction, over *)
(* exactly the n-1 positions 2..n, of the positions where the actual and   *)
(* the predicted close move alike; the first row takes no part.            *)
(***************************************************************************)
C1_DirectionAccuracyOverLaterRows ==
    (AfterMetrics /\ Len(historical_data[1]) >= 2) =>
        direction_accuracy[1] = Frac(Cardinality(AgreeingDays), Len(Actual) - 1)

(***************************************************************************)
(* C2: the metrics and the next prediction do not depend on the order of   *)
(* the rows of the prediction file (one ticker, distinct dates, at most    *)
(* one future row).                                                        *)
(***************************************************************************)
C2_RowOrderInvariant ==
    (AfterMetrics /\ MetricsShown /\ DistinctDates(df_preds_filtered[1])
        /\ Len(future_prediction[1]) <= 1) =>
        \A p \in Permutations(Len(df_preds_filtered[1])) :
            LET h == HistoricalOf(Permuted(df_preds_filtered[1], p))
                f == FutureOf(Permuted(df_preds_filtered[1], p))
            IN  /\ mae[1] = MaeOf(h)
                /\ direction_accuracy[1] = DirectionAccuracyOf(h)
                /\ correlation[1] = CorrelationOf(h)
                /\ IsBound(next_pred) = ~empty(f)
                /\ ~empty(f) => /\ next_pred = f[1].Predicted_Close
                                /\ next_date = <<strftime(f[1].Date)>>

(***************************************************************************)
(* C3 as stated: with no historical row the run yields nothing at all,     *)
(* neither an error metric nor a next prediction.                          *)
(***************************************************************************)
C3_NoResultWithoutHistory ==
    (AfterMetrics /\ empty(historical_data[1])) =>
        /\ ~IsBound(mae) /\ ~IsBound(direction_accuracy) /\ ~IsBound(correlation)
        /\ ~IsBound(next_date) /\ ~IsBound(next_pred)
        /\ ~Rendered("success", "Next day prediction")

(***************************************************************************)
(* C3 as amended: with no historical row the run computes and shows no     *)
(* mean absolute error, direction accuracy or correlation and warns "No    *)
(* historical data available"; the next prediction is still produced, from *)
(* the first future row, exactly when the selected ticker has one.         *)
(***************************************************************************)
C3_NoMetricsWithoutHistory ==
    (AfterMetrics /\ empty(historical_data[1])) =>
        /\ ~IsBound(mae) /\ ~IsBound(direction_accuracy) /\ ~IsBound(correlation)
        /\ ~Rendered("metric", "Mean Absolute Error")
        /\ ~Rendered("metric", "Direction Accuracy")
        /\ ~Rendered("metric", "Price Correlation")
        /\ Rendered("warning", "No historical data available")
        /\ pc # "crashed"
        /\ IsBound(next_pred) = ~empty(future_prediction[1])
        /\ IsBound(next_date) = ~empty(future_prediction[1])
        /\ Rendered("success", "Next day prediction") = ~empty(future_prediction[1])
        /\ ~empty(future_prediction[1]) =>
            /\ next_pred = future_prediction[1][1].Predicted_Close
            /\ ParseDate(next_date[1]) = future_prediction[1][1].Date

C3_Witness ==
    /\ pc = "done"
    /\ empty(historical_data[1])
    /\ Len(future_prediction[1]) = 1
    /\ IsBound(next_pred)
    /\ Rendered("warning", "No historical data available")

(***************************************************************************)
(* C4: with exactly one future row and at least one historical row the     *)
(* next prediction is that row's date and predicted close, and the three   *)
(* metrics are those of the file with that row taken out, wherever the row *)
(* stands in the file.                                                     *)
(***************************************************************************)
FutureRows(t) == {i \in 1..Len(t) : isna(t[i].Close)}

WithoutRow(t, k) == [i \in 1..(Len(t) - 1) |-> IF i < k THEN t[i] ELSE t[i + 1]]

C4_FutureRowOnlyFeedsNextPrediction ==
    (AfterMetrics /\ Cardinality(FutureRows(df_preds_filtered[1])) = 1
        /\ Len(df_preds_filtered[1]) >= 2) =>
        LET t == df_preds_filtered[1]
            k == CHOOSE i \in FutureRows(t) : TRUE
            h == HistoricalOf(WithoutRow(t, k))
        IN  /\ ParseDate(next_date[1]) = t[k].Date
            /\ next_pred = t[k].Predicted_Close
            /\ mae[1] = MaeOf(h)
            /\ direction_accuracy[1] = DirectionAccuracyOf(h)
            /\ correlation[1] = CorrelationOf(h)

C4_Witness ==
    /\ pc = "done"
    /\ Len(df_preds_filtered[1]) = 3
    /\ FutureRows(df_preds_filtered[1]) = {2}
    /\ IsBound(next_pred) /\ MetricsShown
    /\ direction_accuracy[1] = Frac(1, 2)

(***************************************************************************)
(* C7: a day of exactly zero change counts as "not up" on either side: on  *)
(* such a day the two sides agree when the other side is flat or down and  *)
(* disagree when it is up.  The agreeing rows are the first row and every  *)
(* later row where (actual change > 0) equals (predicted change > 0).      *)
(***************************************************************************)
FlatDays(s) == {i \in 2..Len(s) : s[i] = s[i - 1]}

ActualUp == UpDays(Column(historical_data[1], "Close"))

PredictedUp == UpDays(Column(historical_data[1], "Predicted_Close"))

C7_ZeroChangeIsNotUp ==
    (AfterMetrics /\ (FlatDays(Actual) \cup FlatDays(Predicted)) # {}) =>
        /\ \A i \in FlatDays(Actual) :
              /\ ActualUp[i] = <<FALSE>>
              /\ (ActualUp[i] = PredictedUp[i]) = (Predicted[i] <= Predicted[i - 1])
        /\ \A i \in FlatDays(Predicted) :
              /\ PredictedUp[i] = <<FALSE>>
              /\ (ActualUp[i] = PredictedUp[i]) = (Actual[i] <= Actual[i - 1])
        /\ direction_accuracy[1] = Frac(1 + Cardinality(AgreeingDays), Len(Actual))

C7_Witness ==
    /\ pc = "done"
    /\ Len(Actual) = 3
    /\ 2 \in FlatDays(Actual) /\ Predicted[2] > Predicted[1]
    /\ 3 \in FlatDays(Predicted) /\ Actual[3] < Actual[2]
    /\ direction_accuracy[1] = Frac(2, 3)

(***************************************************************************)
(* C8: with at least one historical row the correlation is absent (NaN,    *)
(* not an error) whenever the actual or the predicted closes are all equal *)
(* (a single row included), the other two metrics are still produced, and  *)
(* two identical strictly increasing sequences correlate with 1.           *)
(***************************************************************************)
Constant(s) == \A i, j \in 1..Len(s) : s[i] = s[j]

Increasing(s) == \A i \in 2..Len(s) : s[i - 1] < s[i]

RowsInSelection ==
    {i \in 1..Len(merged_csv) :
        /\ merged_csv[i].Ticker = sidebar_ticker
        /\ DateLE(start_date, merged_csv[i].Date)
        /\ DateLE(merged_csv[i].Date, end_date)}

PriceSummaryShown ==
    \/ IsBound(low_price) \/ IsBound(high_price) \/ IsBound(mean_price)
    \/ IsBound(delta_low) \/ IsBound(delta_high)
    \/ Rendered("metric", "Low") \/ Rendered("metric", "Mean") \/ Rendered("metric", "High")
    \/ Rendered("chart", "Closing Prices Over Time")

AfterPriceMetrics == IsBound(df_filtered) /\ pc # "price_metrics"

C5_NoSummaryOfEmptyRange ==
    /\ (AfterPriceMetrics /\ RowsInSelection = {}) =>
          /\ Rendered("warning", "No data available")
          /\ ~PriceSummaryShown
    /\ PriceSummaryShown => (AfterPriceMetrics /\ RowsInSelection # {})

C5_Witness ==
    /\ pc = "load_preds"
    /\ Len(merged_csv) = 3
    /\ \E i \in 1..3 : merged_csv[i].Ticker = sidebar_ticker
    /\ RowsInSelection = {}
    /\ Rendered("warning", "No data available")

(***************************************************************************)
(* C6: for a non-empty filtered range low <= mean <= high, so the delta of *)
(* Low against the mean is never positive and the delta of High never      *)
(* negative; closes 10, 20, 30 give low 10, high 30, mean 20.              *)
(***************************************************************************)
SelectedCloses == Column(df_filtered[1], "Close")

C9_MetricsOfSelectedRangeOnly ==
    (AfterMetrics /\ MetricsShown) =>
        LET h == InRange(HistoricalOf(FilterTicker(preds_csv, selected_ticker)))
        IN  /\ ~empty(h)
            /\ mae[1] = MaeOf(h)
            /\ direction_accuracy[1] = DirectionAccuracyOf(h)
            /\ correlation[1] = CorrelationOf(h)

(***************************************************************************)
(* C10: a missing input file is reported as "File not found" and the run   *)
(* never goes on to filter, summarize or chart the table that file would   *)
(* have supplied; no step reads a table that was not loaded.               *)
(***************************************************************************)
C10_MissingFileNeverRead ==
    /\ pc \in {"filter", "price_metrics"} => IsBound(df)
    /\ pc \in {"select", "next", "metrics"} => IsBound(df_preds)
    /\ (pc \notin {"button", "load_merged"} /\ load_pressed /\ ~merged_exists) =>
          Rendered("error", "File not found: merged_data.csv")
    /\ pc # "crashed"

=============================================================================
